---- MODULE Spec2Model ----
(***************************************************************************)
(* The worker registry of src/system.rs: ServState (a map from token to    *)
(* WorkerProp behind one Mutex), the global WORKER_TOKEN counter, the job  *)
(* threads with their mpsc channels, and the request handlers that call    *)
(* into the registry while holding the lock.                               *)
(***************************************************************************)
EXTENDS Integers, Sequences, FiniteSets, TLC

\* ---------------------------------------------------------------- bounds
MaxJobs  == 2      \* jobs spawned (and so tokens issued) in one run
MaxTime  == 1      \* SystemTime::now() ranges over 0..MaxTime
MaxLimit == 2      \* configured job limits range over 0..MaxLimit
MaxInFlight == 2   \* callers between their admission check and their enqueue

\* u64::max_value(), the default of job_limit: 2^64 - 1 in the source, here the
\* largest integer TLC computes with
U64Max == 2147483647

Jobs    == 1..MaxJobs
Tokens  == 0..MaxJobs          \* tokens a caller may present; MaxJobs is never issued
Times   == 0..MaxTime
Kinds   == {"Test", "batch"}
NoToken == -1

VARIABLES
    WORKER_TOKEN,   \* the AtomicU64 counter
    WORKER_INIT,    \* the AtomicBool: a ServState has been constructed
    instances,      \* the number of ServState values ServState::new has yielded
    workers,        \* ServState.workers: token -> WorkerProp
    job_limits,     \* ServState.config.job_limits: kind -> limit, read-only
    thread,         \* job -> state of the thread behind the record's JoinHandle
                    \* (and of its Sender); "detached" once the record is dropped
    chan,           \* job -> messages in the job's channel
    cancelled,      \* jobs pthread_cancel was called on
    now,            \* the time SystemTime::now() returned last
    guards,         \* the number of live MutexGuards of the Mutex<ServState>,
                    \* one for each handler inside a registry operation
    admitted,       \* the number of callers that were told a limited kind is
                    \* available and have not enqueued their job yet
    last,           \* the response of the registry operation the last step ran
                    \* (NoLast when the last step ran none)
    seen,           \* token -> the lifecycle outcomes returned for it so far
    issued          \* the tokens returned in Started, in order of return

\* what no handler and no job writes
fixed == <<WORKER_INIT, instances, job_limits>>

vars == <<WORKER_TOKEN, WORKER_INIT, instances, workers, job_limits, thread,
          chan, cancelled, now, guards, admitted, last, seen, issued>>

\* ------------------------------------------------------- PollingState
Started(token) == [tag |-> "Started", token |-> token, val |-> <<>>]
Done(r)        == [tag |-> "Done", token |-> NoToken, val |-> r]
Pending        == [tag |-> "Pending", token |-> NoToken, val |-> <<>>]
Removed        == [tag |-> "Removed", token |-> NoToken, val |-> <<>>]
ErrNotExist    == [tag |-> "Error", token |-> NoToken, val |-> "NotExist"]
ErrDisconnected == [tag |-> "Error", token |-> NoToken, val |-> "Disconnected"]

\* the tag under which an outcome is remembered in seen
Outcome(state) == IF state.tag = "Error" THEN state.val ELSE state.tag

\* ------------------------------------------------------------ WorkerProp
\* WorkerProp::new. job stands for the JoinHandle and the Receiver of one job;
\* the clock is read once for each timestamp.
WorkerPropNew(name, job, t1, t2) ==
    [name |-> name, job |-> job, create_time |-> t1, last_query |-> t2]

\* ------------------------------------------------------------- channels
\* the value job j computes and sends: the test job's "Ok!!!", told apart by job
Result(j) == <<"Ok!!!", j>>

\* the Sender lives as long as the job's thread does
SenderAlive(st) == st \in {"running", "sent"}

\* Receiver::try_recv: a queued message first, then Empty or Disconnected
try_recv(q, st) ==
    IF q /= <<>> THEN [res |-> "Ok", val |-> Head(q), rest |-> Tail(q)]
    ELSE IF SenderAlive(st) THEN [res |-> "Empty", val |-> <<>>, rest |-> q]
    ELSE [res |-> "Disconnected", val |-> <<>>, rest |-> q]

\* dropping a Receiver discards what is still queued
DropReceiver(ch, j) == [ch EXCEPT ![j] = <<>>]

\* dropping a JoinHandle detaches its thread: nothing of the registry can
\* reach the thread any more, whatever it goes on to do
Detach(th, js) == [j \in DOMAIN th |-> IF j \in js THEN "detached" ELSE th[j]]

\* ----------------------------------------------------------- the map
Insert(ws, token, prop) ==
    [h \in DOMAIN ws \cup {token} |-> IF h = token THEN prop ELSE ws[h]]

Erase(ws, token) == [h \in DOMAIN ws \ {token} |-> ws[h]]

\* ----------------------------------------------------------- ServState
\* ServState::new with a load in place of the swap: the flag is not set
new_load(init) == [init |-> init, ok |-> (init = FALSE)]

\* ServState::new: swap(true) returns the flag as it was, and the assertion
\* lets the construction go on only if that was false
new(init) == [init |-> TRUE, ok |-> (init = FALSE)]

RECURSIVE CountIf(_, _, _)
\* iter().filter(..).count() over the entries of the map
CountIf(ws, keys, name) ==
    IF keys = {} THEN 0
    ELSE LET h == CHOOSE x \in keys : TRUE
         IN  (IF ws[h].name = name THEN 1 ELSE 0) + CountIf(ws, keys \ {h}, name)

\* job_num without the filter on the name
job_num_all(ws, name) == Cardinality(DOMAIN ws)

job_num(ws, name) == CountIf(ws, DOMAIN ws, name)

\* job_limit that finds no kind configured
job_limit_none(limits, name) == U64Max

job_limit(limits, name) ==
    IF name \in DOMAIN limits THEN limits[name] ELSE U64Max

\* job_available with <= in place of <
job_available_le(ws, limits, name) ==
    LET num   == job_num(ws, name)
        limit == job_limit(limits, name)
    IN  num <= limit

job_available(ws, limits, name) ==
    LET num   == job_num(ws, name)
        limit == job_limit(limits, name)
    IN  num < limit

\* enqueue with a load in place of the fetch_add: the counter stays
enqueue_load(ws, counter, prop) ==
    [workers |-> Insert(ws, counter, prop),
     counter |-> counter,
     state   |-> Started(counter)]

\* enqueue that stores every record under the same key
enqueue_slot(ws, counter, prop) ==
    [workers |-> Insert(ws, 0, prop),
     counter |-> counter + 1,
     state   |-> Started(counter)]

\* fetch_add returns the old value; the new record is stored under it
enqueue(ws, counter, prop) ==
    [workers |-> Insert(ws, counter, prop),
     counter |-> counter + 1,
     state   |-> Started(counter)]

\* get that removes the record on Disconnected as it does on Done
get_reap(ws, ch, th, token, t) ==
    IF token \notin DOMAIN ws
    THEN [workers |-> ws, chan |-> ch, dropped |-> {}, state |-> ErrNotExist]
    ELSE LET j     == ws[token].job
             r     == try_recv(ch[j], th[j])
             state == CASE r.res = "Ok" -> Done(r.val)
                        [] r.res = "Empty" -> Pending
                        [] r.res = "Disconnected" -> ErrDisconnected
             ws1   == [ws EXCEPT ![token].last_query = t]
             ch1   == [ch EXCEPT ![j] = r.rest]
         IN  IF state.tag \in {"Done", "Error"}
             THEN [workers |-> Erase(ws1, token), chan |-> DropReceiver(ch1, j),
                   dropped |-> {j}, state |-> state]
             ELSE [workers |-> ws1, chan |-> ch1, dropped |-> {}, state |-> state]

\* get that takes the message and still answers Pending
get_lossy(ws, ch, th, token, t) ==
    IF token \notin DOMAIN ws
    THEN [workers |-> ws, chan |-> ch, dropped |-> {}, state |-> ErrNotExist]
    ELSE LET j     == ws[token].job
             r     == try_recv(ch[j], th[j])
             state == CASE r.res = "Ok" -> Pending
                        [] r.res = "Empty" -> Pending
                        [] r.res = "Disconnected" -> ErrDisconnected
         IN  [workers |-> [ws EXCEPT ![token].last_query = t],
              chan    |-> [ch EXCEPT ![j] = r.rest],
              dropped |-> {}, state |-> state]

\* get with the Empty and Disconnected arms exchanged
get_swapped(ws, ch, th, token, t) ==
    IF token \notin DOMAIN ws
    THEN [workers |-> ws, chan |-> ch, dropped |-> {}, state |-> ErrNotExist]
    ELSE LET j     == ws[token].job
             r     == try_recv(ch[j], th[j])
             state == CASE r.res = "Ok" -> Done(r.val)
                        [] r.res = "Empty" -> ErrDisconnected
                        [] r.res = "Disconnected" -> Pending
             ws1   == [ws EXCEPT ![token].last_query = t]
             ch1   == [ch EXCEPT ![j] = r.rest]
         IN  IF state.tag = "Done"
             THEN [workers |-> Erase(ws1, token), chan |-> DropReceiver(ch1, j),
                   dropped |-> {j}, state |-> state]
             ELSE [workers |-> ws1, chan |-> ch1, dropped |-> {}, state |-> state]

\* get that drops a record not queried since an earlier instant
get_expire(ws, ch, th, token, t) ==
    IF token \notin DOMAIN ws
    THEN [workers |-> ws, chan |-> ch, dropped |-> {}, state |-> ErrNotExist]
    ELSE LET j     == ws[token].job
             r     == try_recv(ch[j], th[j])
             state == CASE r.res = "Ok" -> Done(r.val)
                        [] r.res = "Empty" -> Pending
                        [] r.res = "Disconnected" -> ErrDisconnected
             ws1   == [ws EXCEPT ![token].last_query = t]
             ch1   == [ch EXCEPT ![j] = r.rest]
         IN  IF state.tag = "Done" \/ t > ws[token].last_query
             THEN [workers |-> Erase(ws1, token), chan |-> DropReceiver(ch1, j),
                   dropped |-> {j}, state |-> state]
             ELSE [workers |-> ws1, chan |-> ch1, dropped |-> {}, state |-> state]

\* get without the update of last_query
get_unstamped(ws, ch, th, token, t) ==
    IF token \notin DOMAIN ws
    THEN [workers |-> ws, chan |-> ch, dropped |-> {}, state |-> ErrNotExist]
    ELSE LET j     == ws[token].job
             r     == try_recv(ch[j], th[j])
             state == CASE r.res = "Ok" -> Done(r.val)
                        [] r.res = "Empty" -> Pending
                        [] r.res = "Disconnected" -> ErrDisconnected
             ch1   == [ch EXCEPT ![j] = r.rest]
         IN  IF state.tag = "Done"
             THEN [workers |-> Erase(ws, token), chan |-> DropReceiver(ch1, j),
                   dropped |-> {j}, state |-> state]
             ELSE [workers |-> ws, chan |-> ch1, dropped |-> {}, state |-> state]

\* get without the removal on Done
get_keep(ws, ch, th, token, t) ==
    IF token \notin DOMAIN ws
    THEN [workers |-> ws, chan |-> ch, dropped |-> {}, state |-> ErrNotExist]
    ELSE LET j     == ws[token].job
             r     == try_recv(ch[j], th[j])
             state == CASE r.res = "Ok" -> Done(r.val)
                        [] r.res = "Empty" -> Pending
                        [] r.res = "Disconnected" -> ErrDisconnected
         IN  [workers |-> [ws EXCEPT ![token].last_query = t],
              chan    |-> [ch EXCEPT ![j] = r.rest],
              dropped |-> {}, state |-> state]

\* get that looks at the channel without taking the message, and keeps the record
get_peek(ws, ch, th, token, t) ==
    IF token \notin DOMAIN ws
    THEN [workers |-> ws, chan |-> ch, dropped |-> {}, state |-> ErrNotExist]
    ELSE LET j     == ws[token].job
             r     == try_recv(ch[j], th[j])
             state == CASE r.res = "Ok" -> Done(r.val)
                        [] r.res = "Empty" -> Pending
                        [] r.res = "Disconnected" -> ErrDisconnected
         IN  [workers |-> [ws EXCEPT ![token].last_query = t],
              chan    |-> ch, dropped |-> {}, state |-> state]

get(ws, ch, th, token, t) ==
    IF token \notin DOMAIN ws
    THEN [workers |-> ws, chan |-> ch, dropped |-> {}, state |-> ErrNotExist]
    ELSE LET j     == ws[token].job
             r     == try_recv(ch[j], th[j])
             state == CASE r.res = "Ok" -> Done(r.val)
                        [] r.res = "Empty" -> Pending
                        [] r.res = "Disconnected" -> ErrDisconnected
             ws1   == [ws EXCEPT ![token].last_query = t]
             ch1   == [ch EXCEPT ![j] = r.rest]
         IN  IF state.tag = "Done"
             THEN [workers |-> Erase(ws1, token), chan |-> DropReceiver(ch1, j),
                   dropped |-> {j}, state |-> state]
             ELSE [workers |-> ws1, chan |-> ch1, dropped |-> {}, state |-> state]

\* remove that leaves a job alone until its result has arrived
remove_wait(ws, ch, token) ==
    IF token \in DOMAIN ws
    THEN IF ch[ws[token].job] = <<>>
         THEN [workers |-> ws, chan |-> ch, cancel |-> {}, state |-> Pending]
         ELSE [workers |-> Erase(ws, token),
               chan    |-> DropReceiver(ch, ws[token].job),
               cancel  |-> {ws[token].job},
               state   |-> Removed]
    ELSE [workers |-> ws, chan |-> ch, cancel |-> {}, state |-> ErrNotExist]

\* remove that looks the record up without taking it out of the map
remove_keep(ws, ch, token) ==
    IF token \in DOMAIN ws
    THEN [workers |-> ws, chan |-> ch, cancel |-> {ws[token].job}, state |-> Removed]
    ELSE [workers |-> ws, chan |-> ch, cancel |-> {}, state |-> ErrNotExist]

\* remove that reports Removed whether or not the token was there
remove_blind(ws, ch, token) ==
    IF token \in DOMAIN ws
    THEN [workers |-> Erase(ws, token),
          chan    |-> DropReceiver(ch, ws[token].job),
          cancel  |-> {ws[token].job},
          state   |-> Removed]
    ELSE [workers |-> ws, chan |-> ch, cancel |-> {}, state |-> Removed]

\* the record removed is dropped after pthread_cancel, its receiver with it
remove(ws, ch, token) ==
    IF token \in DOMAIN ws
    THEN [workers |-> Erase(ws, token),
          chan    |-> DropReceiver(ch, ws[token].job),
          cancel  |-> {ws[token].job},
          state   |-> Removed]
    ELSE [workers |-> ws, chan |-> ch, cancel |-> {}, state |-> ErrNotExist]

\* debug_info that formats the records without reading their receivers
debug_info_peek(ws, ch, th) == ch

\* every record's receiver is read once, for the text; what was read is gone
debug_info(ws, ch, th) ==
    [j \in Jobs |->
       IF \E h \in DOMAIN ws : ws[h].job = j
       THEN try_recv(ch[j], th[j]).rest ELSE ch[j]]

\* ------------------------------------------------------------- state
NoState == [tag |-> "none", token |-> NoToken, val |-> <<>>]

NoLast == [op |-> "none", token |-> NoToken, name |-> "", state |-> NoState]

\* the configuration: "batch" is limited, "Test" is not
LimitConfigs == {[k \in {"batch"} |-> MaxLimit]}

\* the registry as ServState::new leaves it, no job spawned, no request made
Empty ==
    /\ WORKER_TOKEN = 0
    /\ workers = <<>>
    /\ thread = [j \in Jobs |-> "none"]
    /\ chan = [j \in Jobs |-> <<>>]
    /\ cancelled = {}
    /\ guards = 0
    /\ admitted = 0
    /\ last = NoLast
    /\ seen = [h \in Tokens |-> {}]
    /\ issued = <<>>

\* after the one construction of the server, with the clock at the last
\* instant of its range: every read of it returns that instant
Init ==
    /\ Empty
    /\ WORKER_INIT = TRUE
    /\ instances = 1
    /\ job_limits \in LimitConfigs
    /\ now = MaxTime

\* the same with the clock at the first instant of its range
InitClock ==
    /\ Empty
    /\ WORKER_INIT = TRUE
    /\ instances = 1
    /\ job_limits \in LimitConfigs
    /\ now = 0

\* ------------------------------------------------------------ the clock
\* SystemTime::now(): some time not before the one read last
ClockReads == now..MaxTime

\* ------------------------------------------------------------ job threads
\* tx.send(v).unwrap(): the message is queued
JobSend(j) ==
    /\ thread[j] = "running"
    /\ chan' = [chan EXCEPT ![j] = Append(@, Result(j))]
    /\ thread' = [thread EXCEPT ![j] = "sent"]
    /\ last' = NoLast
    /\ UNCHANGED <<WORKER_TOKEN, fixed, workers, cancelled, now, guards,
                   admitted, seen, issued>>

\* the thread ends and drops its Sender: after sending, or without a result
JobExit(j) ==
    /\ thread[j] \in {"running", "sent"}
    /\ thread' = [thread EXCEPT ![j] = IF @ = "sent" THEN "done" ELSE "died"]
    /\ last' = NoLast
    /\ UNCHANGED <<WORKER_TOKEN, fixed, workers, chan, cancelled, now, guards,
                   admitted, seen, issued>>

\* -------------------------------------------------------------- handlers
\* a lock that is handed out whether or not it is held
Lock_shared ==
    /\ guards < MaxJobs
    /\ guards' = guards + 1
    /\ last' = NoLast
    /\ UNCHANGED <<WORKER_TOKEN, fixed, workers, thread, chan, cancelled, now,
                   admitted, seen, issued>>

\* state.lock().unwrap(): a handler waits until the lock is free and takes it
Lock ==
    /\ guards = 0
    /\ guards' = guards + 1
    /\ last' = NoLast
    /\ UNCHANGED <<WORKER_TOKEN, fixed, workers, thread, chan, cancelled, now,
                   admitted, seen, issued>>

\* the outcomes that mark a token's life; Pending and NotExist leave no mark
Marks == {"Started", "Done", "Disconnected", "Removed"}

Note(sn, token, state) == [sn EXCEPT ![token] = @ \cup ({Outcome(state)} \cap Marks)]

\* channel(), thread::spawn, WorkerProp::new, enqueue under the lock; the
\* guard is dropped with the statement
Enqueue(name, t) ==
    /\ guards > 0
    /\ t \in ClockReads
    /\ \E j \in Jobs, t2 \in t..MaxTime :
         /\ thread[j] = "none"
         /\ \A i \in Jobs : i < j => thread[i] /= "none"
         /\ thread' = [thread EXCEPT ![j] = "running"]
         /\ now' = t2
         /\ LET r == enqueue(workers, WORKER_TOKEN, WorkerPropNew(name, j, t, t2))
            IN  /\ workers' = r.workers
                /\ WORKER_TOKEN' = r.counter
                /\ last' = [NoLast EXCEPT !.op = "enqueue", !.name = name,
                                          !.state = r.state]
                /\ seen' = Note(seen, r.state.token, r.state)
                /\ issued' = Append(issued, r.state.token)
    /\ guards' = guards - 1
    /\ UNCHANGED <<fixed, chan, cancelled>>

\* test_polling, and any handler that enqueues without asking
DoEnqueue(name, t) == Enqueue(name, t) /\ UNCHANGED admitted

\* query_state
DoGet(token, t) ==
    /\ guards > 0
    /\ t \in ClockReads
    /\ token \notin DOMAIN workers => t = now      \* the clock is not read
    /\ now' = t
    /\ LET r == get(workers, chan, thread, token, t)
       IN  /\ workers' = r.workers
           /\ chan' = r.chan
           /\ thread' = Detach(thread, r.dropped)
           /\ last' = [NoLast EXCEPT !.op = "get", !.token = token, !.state = r.state]
           /\ seen' = Note(seen, token, r.state)
    /\ guards' = guards - 1
    /\ UNCHANGED <<WORKER_TOKEN, fixed, cancelled, admitted, issued>>

\* remove_job that asks for the job's state first and leaves a job alone
\* whose channel is disconnected
DoRemove_checked(token) ==
    /\ guards > 0
    /\ LET gone == /\ token \in DOMAIN workers
                   /\ try_recv(chan[workers[token].job],
                               thread[workers[token].job]).res = "Disconnected"
           r == IF gone
                THEN [workers |-> workers, chan |-> chan, cancel |-> {},
                      state |-> ErrDisconnected]
                ELSE remove(workers, chan, token)
       IN  /\ workers' = r.workers
           /\ chan' = r.chan
           /\ cancelled' = cancelled \cup r.cancel
           /\ thread' = Detach(thread, r.cancel)
           /\ last' = [NoLast EXCEPT !.op = "remove", !.token = token, !.state = r.state]
           /\ seen' = Note(seen, token, r.state)
    /\ guards' = guards - 1
    /\ UNCHANGED <<WORKER_TOKEN, fixed, now, admitted, issued>>

\* remove_job
DoRemove(token) ==
    /\ guards > 0
    /\ LET r == remove(workers, chan, token)
       IN  /\ workers' = r.workers
           /\ chan' = r.chan
           /\ cancelled' = cancelled \cup r.cancel
           /\ thread' = Detach(thread, r.cancel)
           /\ last' = [NoLast EXCEPT !.op = "remove", !.token = token, !.state = r.state]
           /\ seen' = Note(seen, token, r.state)
    /\ guards' = guards - 1
    /\ UNCHANGED <<WORKER_TOKEN, fixed, now, admitted, issued>>

\* debug_info that treats a message it reads as get does: the record goes
DoDebug_reap ==
    /\ guards > 0
    /\ chan' = debug_info(workers, chan, thread)
    /\ workers' = [h \in {x \in DOMAIN workers : chan[workers[x].job] = <<>>}
                     |-> workers[h]]
    /\ last' = [NoLast EXCEPT !.op = "debug_info"]
    /\ guards' = guards - 1
    /\ UNCHANGED <<WORKER_TOKEN, fixed, thread, cancelled, now,
                   admitted, seen, issued>>

\* debug_info
DoDebug ==
    /\ guards > 0
    /\ chan' = debug_info(workers, chan, thread)
    /\ last' = [NoLast EXCEPT !.op = "debug_info"]
    /\ guards' = guards - 1
    /\ UNCHANGED <<WORKER_TOKEN, fixed, workers, thread, cancelled, now,
                   admitted, seen, issued>>

\* job_available under the lock: the admission check of a caller
Available(name) ==
    /\ guards > 0
    /\ last' = [NoLast EXCEPT !.op = "job_available", !.name = name,
                  !.state = [NoState EXCEPT !.tag =
                     IF job_available(workers, job_limits, name)
                     THEN "true" ELSE "false"]]
    /\ guards' = guards - 1
    /\ UNCHANGED <<WORKER_TOKEN, fixed, workers, thread, chan, cancelled,
                   now, seen, issued>>

\* a caller that only asks
DoAvailable(name) == Available(name) /\ UNCHANGED admitted

\* a caller of a limited kind asks first, in a lock acquisition of its own;
\* told that the kind is available it goes on to spawn its job
Admit(name) ==
    /\ name \in DOMAIN job_limits
    /\ admitted < MaxInFlight
    /\ Available(name)
    /\ admitted' = IF job_available(workers, job_limits, name)
                   THEN admitted + 1 ELSE admitted

\* and enqueues it in a second lock acquisition, without asking again
EnqueueAdmitted(name, t) ==
    /\ name \in DOMAIN job_limits
    /\ admitted > 0
    /\ Enqueue(name, t)
    /\ admitted' = admitted - 1

Next ==
    \/ \E j \in Jobs : JobSend(j)
    \/ \E j \in Jobs : JobExit(j)
    \/ Lock
    \/ \E name \in Kinds, t \in Times : DoEnqueue(name, t)
    \/ \E token \in Tokens, t \in Times : DoGet(token, t)
    \/ \E token \in Tokens : DoRemove(token)
    \/ DoDebug
    \/ \E name \in Kinds : DoAvailable(name)

Spec == Init /\ [][Next]_vars

\* the handler that holds the lock ends its operation and drops the guard
Return == Next /\ guards' < guards

\* a handler inside an operation is a thread that runs on; nothing is assumed
\* of the jobs, which may stay as they are for ever
SpecLive == Init /\ [][Next]_vars /\ WF_vars(Return)

\* before the server is constructed
InitNew ==
    /\ Empty
    /\ WORKER_INIT = FALSE
    /\ instances = 0
    /\ job_limits \in LimitConfigs
    /\ now = MaxTime

\* a thread calls ServState::new: the swap is one atomic step, and the
\* assertion that follows reads only the value the swap returned, so the two
\* are one step of the thread. A failed assertion panics: no value is yielded.
New ==
    /\ LET r == new(WORKER_INIT)
       IN  /\ WORKER_INIT' = r.init
           /\ instances' = IF r.ok THEN instances + 1 ELSE instances
           /\ last' = [NoLast EXCEPT !.op = "new", !.state =
                         [NoState EXCEPT !.tag = IF r.ok THEN "constructed"
                                                 ELSE "panic"]]
    /\ UNCHANGED <<WORKER_TOKEN, job_limits, workers, thread, chan, cancelled,
                   now, guards, admitted, seen, issued>>

\* the handlers run on the ServState that was constructed
Constructed == instances > 0

NextNew ==
    \/ New
    \/ Constructed /\ Next

SpecNew == InitNew /\ [][NextNew]_vars

\* the four handlers of the source, which enqueue "Test" jobs only, with the
\* clock running
NextClock ==
    \/ \E j \in Jobs : JobSend(j)
    \/ \E j \in Jobs : JobExit(j)
    \/ Lock
    \/ \E t \in Times : DoEnqueue("Test", t)
    \/ \E token \in Tokens, t \in Times : DoGet(token, t)
    \/ \E token \in Tokens : DoRemove(token)
    \/ DoDebug

SpecClock == InitClock /\ [][NextClock]_vars

\* a limit below the number of jobs that can be spawned
TightConfigs == {[k \in {"batch"} |-> MaxLimit - 1]}

InitAdmit ==
    /\ Empty
    /\ WORKER_INIT = TRUE
    /\ instances = 1
    /\ job_limits \in TightConfigs
    /\ now = MaxTime

\* jobs of a limited kind are enqueued by callers that were told the kind is
\* available; "Test" jobs by test_polling, which does not ask
NextAdmit ==
    \/ \E j \in Jobs : JobSend(j)
    \/ \E j \in Jobs : JobExit(j)
    \/ Lock
    \/ \E name \in Kinds : Admit(name)
    \/ \E name \in Kinds, t \in Times : EnqueueAdmitted(name, t)
    \/ \E t \in Times : DoEnqueue("Test", t)
    \/ \E token \in Tokens, t \in Times : DoGet(token, t)
    \/ \E token \in Tokens : DoRemove(token)
    \/ DoDebug

SpecAdmit == InitAdmit /\ [][NextAdmit]_vars

\* ------------------------------------------------------------ properties
\* the step is a registry operation op returning to its caller
Ran(op) == guards' = guards - 1 /\ last'.op = op

\* the step is get or remove of token h returning to its caller
RanOn(op, h) == Ran(op) /\ last'.token = h

\* the number of records in the registry whose name is k
Count(k) == Cardinality({h \in DOMAIN workers : workers[h].name = k})

\* C1: the tokens returned in Started are pairwise distinct, begin with 0 and
\* rise strictly in the order of return, and every enqueue has advanced the
\* counter by exactly one.
C1_HandlesDistinctIncreasing ==
    /\ \A i, k \in 1..Len(issued) : i /= k => issued[i] /= issued[k]
    /\ Len(issued) > 0 => issued[1] = 0
    /\ \A i, k \in 1..Len(issued) : i < k => issued[i] < issued[k]
    /\ WORKER_TOKEN = Len(issued)
    /\ last.op = "enqueue" => last.state = Started(WORKER_TOKEN - 1)

C1_Witness ==
    /\ last.op = "enqueue"
    /\ Len(issued) >= 2
    /\ DOMAIN workers /= {}

\* C2: a get that returns Done erases the record in that call, and once Done
\* has been returned for a token every later get of it returns NotExist,
\* whatever ran in between: the record never comes back.
C2_DoneThenNotExist ==
    [][/\ Ran("get") =>
            LET h == last'.token IN
            /\ last'.state.tag = "Done" => h \notin DOMAIN workers'
            /\ "Done" \in seen[h] => last'.state = ErrNotExist
       /\ \A h \in Tokens : "Done" \in seen[h] => h \notin DOMAIN workers']_vars

C2_Witness ==
    /\ last.op = "get" /\ last.state = ErrNotExist
    /\ "Done" \in seen[last.token]
    /\ DOMAIN workers /= {}

\* C3: for every token at most one get ever returns Done: the get that
\* returns Done is the first to do so, only Started was marked for the token
\* before it, and every get after it returns NotExist.
C3_AtMostOneDone ==
    [][Ran("get") =>
          LET h == last'.token IN
          /\ last'.state.tag = "Done" => seen[h] = {"Started"}
          /\ "Done" \in seen[h] =>
                 last'.state.tag /= "Done" /\ last'.state = ErrNotExist]_vars

C3_Witness ==
    /\ last.op = "get" /\ last.state.tag = "Done"
    /\ seen[last.token] = {"Started", "Done"}

\* C4: a remove that returns Removed erases the record, and once Removed has
\* been returned for a token every later get and remove of it returns
\* NotExist, whatever was enqueued since.
C4_RemovedThenNotExist ==
    [][/\ Ran("remove") =>
            (last'.state = Removed => last'.token \notin DOMAIN workers')
       /\ (Ran("get") \/ Ran("remove")) =>
            ("Removed" \in seen[last'.token] => last'.state = ErrNotExist)
       /\ \A h \in Tokens : "Removed" \in seen[h] => h \notin DOMAIN workers']_vars

C4_Witness ==
    /\ last.op \in {"get", "remove"} /\ last.state = ErrNotExist
    /\ seen[last.token] = {"Started", "Removed"}
    /\ WORKER_TOKEN > last.token + 1

\* C5: get and remove of a token that is not in the registry return NotExist
\* and change nothing: the map with every record's name, job and timestamp,
\* the channels, the counter, the threads and the set of cancelled jobs.
C5_AbsentTokenNoChange ==
    [][((Ran("get") \/ Ran("remove")) /\ last'.token \notin DOMAIN workers) =>
          /\ last'.state = ErrNotExist
          /\ UNCHANGED <<workers, chan, WORKER_TOKEN, thread, cancelled, now,
                         job_limits, issued>>]_vars

C5_Witness ==
    /\ last.op \in {"get", "remove"} /\ last.state = ErrNotExist
    /\ last.token >= WORKER_TOKEN
    /\ DOMAIN workers /= {}

\* the step returns an outcome for a token: Started from enqueue, or the
\* answer of a get or a remove
Returns == guards' = guards - 1 /\ last'.op \in {"enqueue", "get", "remove"}

\* the token the outcome is for, and the outcome
ReturnsFor == IF last'.op = "enqueue" THEN last'.state.token ELSE last'.token

ReturnsTag == Outcome(last'.state)

Terminal == {"Done", "Disconnected", "Removed"}

\* C6 as stated: Started is returned once and first, Pending only before a
\* terminal outcome, and once Done, Disconnected or Removed has been returned
\* for a token the only outcome returned for it is NotExist.
C6_Original ==
    [][Returns =>
          LET h == ReturnsFor  tag == ReturnsTag IN
          /\ tag = "Started" => seen[h] = {}
          /\ tag \in {"Pending"} \cup Terminal => "Started" \in seen[h]
          /\ seen[h] \cap Terminal /= {} => tag = "NotExist"]_vars

\* C6 amended: Started is returned once and first; then Pending any number of
\* times; then Disconnected any number of times, the record staying in the
\* registry; then at most one of Done (never after Disconnected) and
\* Removed; once Done or Removed has been returned the only outcome returned
\* for the token is NotExist.
C6_Lifecycle ==
    [][Returns =>
          LET h == ReturnsFor  tag == ReturnsTag IN
          /\ tag = "Started" => seen[h] = {}
          /\ tag \in {"Pending"} \cup Terminal => "Started" \in seen[h]
          /\ seen[h] \cap {"Done", "Removed"} /= {} => tag = "NotExist"
          /\ tag = "NotExist" => seen[h] = {} \/ seen[h] \cap {"Done", "Removed"} /= {}
          /\ ("Disconnected" \in seen[h] /\ seen[h] \cap {"Done", "Removed"} = {})
                => tag \in {"Disconnected", "Removed"}
          /\ tag = "Disconnected" => h \in DOMAIN workers']_vars

C6_Witness ==
    /\ last.op = "remove" /\ last.state = Removed
    /\ seen[last.token] = {"Started", "Disconnected", "Removed"}

\* C7: when the job's thread has ended without sending, get returns
\* Disconnected and keeps the record: the token stays in the map, job_num of
\* its name is as before, and once Disconnected has been returned every
\* further get of the registered token returns Disconnected again.
C7_DisconnectedKeepsRecord ==
    [][Ran("get") =>
          LET h == last'.token IN
          /\ (h \in DOMAIN workers /\ thread[workers[h].job] = "died") =>
               /\ last'.state = ErrDisconnected
               /\ h \in DOMAIN workers'
               /\ workers'[h].name = workers[h].name
               /\ workers'[h].job = workers[h].job
               /\ thread'[workers[h].job] = "died"
               /\ \A k \in Kinds : job_num(workers', k) = job_num(workers, k)
          /\ ("Disconnected" \in seen[h] /\ "Removed" \notin seen[h]) =>
               last'.state = ErrDisconnected /\ h \in DOMAIN workers']_vars

C7_Witness ==
    /\ last.op = "get" /\ last.state = ErrDisconnected
    /\ last.token \in DOMAIN workers
    /\ thread[workers[last.token].job] = "died"
    /\ "Disconnected" \in seen[last.token]
    /\ job_num(workers, workers[last.token].name) >= 1

\* C8: a message stays in the channel until a get or remove of the job's
\* token or a debug_info runs; a get that finds the message returns Done with
\* the value the job sent; a get of a job that is still running and has not
\* sent returns Pending.
C8_DoneCarriesValue ==
    [][\A h \in DOMAIN workers :
          LET j == workers[h].job IN
          /\ (thread[j] = "running" /\ thread'[j] = "sent") =>
                 chan'[j] = <<Result(j)>>
          /\ (chan[j] /= <<>> /\ chan'[j] /= chan[j]) =>
                 RanOn("get", h) \/ RanOn("remove", h) \/ Ran("debug_info")
          /\ (RanOn("get", h) /\ chan[j] /= <<>>) =>
                 last'.state = Done(Result(j))
          /\ (RanOn("get", h) /\ thread[j] = "running") =>
                 last'.state = Pending /\ h \in DOMAIN workers']_vars

C8_Witness ==
    /\ last.op = "get"
    /\ last.state = Done(Result(2))
    /\ last.token = 1

\* C9: in every state and for every kind k, job_available is true exactly
\* when the number of k-named records is below the configured limit of k; for
\* a kind without a configured limit it is true whatever the number.
C9_AvailableIffBelowLimit ==
    /\ \A k \in Kinds :
         job_available(workers, job_limits, k)
           <=> (k \in DOMAIN job_limits => Count(k) < job_limits[k])
    /\ last.op = "job_available" =>
         ((last.state.tag = "true")
           <=> (last.name \in DOMAIN job_limits => Count(last.name) < job_limits[last.name]))

C9_Witness ==
    /\ last.op = "job_available" /\ last.name = "batch"
    /\ last.state.tag = "false"
    /\ Count("batch") = job_limits["batch"]
    /\ job_available(workers, job_limits, "Test")

\* C10: job_num of k is the number of records named k: it rises by one with
\* the enqueue of a k-named record, falls by one when a k-named record is
\* erased by a remove or by a get returning Done, and no other step changes
\* it; so a limited kind is unavailable once as many records as its limit are
\* registered, and available again when one of them has been erased.
C10_CountTracksRecords ==
    /\ [](\A k \in Kinds : job_num(workers, k) = Count(k))
    /\ [][\/ workers' = workers
          \/ \A k \in Kinds :
               LET d == job_num(workers', k) - job_num(workers, k) IN
               /\ (Ran("enqueue") /\ last'.name = k) => d = 1
               /\ (Ran("enqueue") /\ last'.name /= k) => d = 0
               /\ \A h \in DOMAIN workers :
                    ((RanOn("remove", h) /\ last'.state = Removed)
                       \/ (RanOn("get", h) /\ last'.state.tag = "Done")) =>
                         d = (IF workers[h].name = k THEN -1 ELSE 0)
               /\ d /= 0 => \/ Ran("enqueue")
                            \/ Ran("remove") /\ last'.state = Removed
                            \/ Ran("get") /\ last'.state.tag = "Done"
               /\ (k \in DOMAIN job_limits /\ job_num(workers', k) >= job_limits[k])
                     => ~job_available(workers', job_limits, k)
               /\ (k \in DOMAIN job_limits /\ job_num(workers, k) = job_limits[k]
                     /\ d = -1)
                     => job_available(workers', job_limits, k)]_vars

C10_Witness ==
    /\ last.op = "remove" /\ last.state = Removed
    /\ job_num(workers, "batch") = job_limits["batch"] - 1
    /\ job_available(workers, job_limits, "batch")

\* C11: the limit is no hard cap. A job of a limited kind is enqueued only
\* by a caller that was told, under the lock, that the kind was available; as
\* the answer and the enqueue are two lock acquisitions, the records of the
\* kind can outnumber the limit. The records and the callers in flight
\* together stay below the limit plus the number of callers that can be in
\* flight at once, so with one caller at a time the limit would hold.
C11_AdmissionAdvisory ==
    \A k \in DOMAIN job_limits :
        /\ Count(k) + admitted <= job_limits[k] + MaxInFlight - 1
        /\ (last.op = "job_available" /\ last.name = k /\ last.state.tag = "true")
              => Count(k) < job_limits[k]

\* both callers were admitted and have enqueued: more records than the limit
C11_Witness ==
    /\ last.op = "enqueue" /\ last.name = "batch"
    /\ admitted = 0
    /\ Count("batch") > job_limits["batch"]

\* C12: at most one ServState is ever constructed. WORKER_INIT is set by the
\* first call of ServState::new and never cleared; the call that finds it
\* clear yields the one instance, and every call that finds it set panics
\* and yields none, whatever the handlers have done in between.
C12_ConstructedOnce ==
    /\ [](instances <= 1 /\ (WORKER_INIT <=> instances = 1))
    /\ [][/\ WORKER_INIT => WORKER_INIT'
          /\ instances' >= instances
          /\ last'.op = "new" =>
                /\ WORKER_INIT'
                /\ (last'.state.tag = "constructed") <=> ~WORKER_INIT
                /\ (last'.state.tag = "panic") <=> WORKER_INIT
                /\ instances' = instances + (IF WORKER_INIT THEN 0 ELSE 1)]_vars

\* a construction attempted while the registry is in use has panicked
C12_Witness ==
    /\ last.op = "new" /\ last.state.tag = "panic"
    /\ instances = 1
    /\ DOMAIN workers /= {}

\* C13: enqueue returns Started(h) for the h the counter held, which was no
\* key of the map; the map gains exactly the key h, holding the record passed
\* in, and every record that was in the map is in it as it was; the channels
\* of the other jobs are left alone.
C13_EnqueueAddsOne ==
    [][Ran("enqueue") =>
          LET h == last'.state.token IN
          /\ last'.state = Started(h)
          /\ h = WORKER_TOKEN
          /\ h \notin DOMAIN workers
          /\ DOMAIN workers' = DOMAIN workers \cup {h}
          /\ Cardinality(DOMAIN workers') = Cardinality(DOMAIN workers) + 1
          /\ \A x \in DOMAIN workers : workers'[x] = workers[x]
          /\ workers'[h].name = last'.name
          /\ thread[workers'[h].job] = "none"
          /\ \A x \in DOMAIN workers : workers'[h].job /= workers[x].job
          /\ chan' = chan]_vars

\* a second record was enqueued next to one that had been polled since
C13_Witness ==
    /\ last.op = "enqueue"
    /\ Cardinality(DOMAIN workers) >= 2
    /\ \E x \in DOMAIN workers :
         /\ x /= last.state.token
         /\ workers[x].last_query > workers[x].create_time

\* the tokens enqueue has returned
Issued == {issued[i] : i \in 1..Len(issued)}

\* the tokens for which a get has returned Done or a remove has returned Removed
Erased == {h \in Tokens : seen[h] \cap {"Done", "Removed"} /= {}}

\* C14: in every state the keys of the map are the tokens enqueue has
\* returned less those for which get has returned Done or remove has
\* returned Removed; a key leaves the map only in the get of it that returns
\* Done or the remove of it that returns Removed, and not with a get that
\* returns Pending or Disconnected, a debug_info, or the passing of time.
C14_RegistryIsIssuedLessErased ==
    /\ [](DOMAIN workers = Issued \ Erased)
    /\ [][\A h \in DOMAIN workers :
            h \notin DOMAIN workers' =>
               \/ RanOn("get", h) /\ last'.state.tag = "Done"
               \/ RanOn("remove", h) /\ last'.state = Removed]_vars

\* a record that answered Disconnected and has not been queried since an
\* earlier instant is still there after a debug_info, another one is gone
C14_Witness ==
    /\ last.op = "debug_info"
    /\ Erased /= {}
    /\ \E h \in DOMAIN workers :
         /\ "Disconnected" \in seen[h]
         /\ now > workers[h].last_query

\* the job of the registered token h has sent its value and the channel is
\* empty: as get and remove drop the record with the message, a debug_info
\* has taken it
Consumed(h) ==
    /\ thread[workers[h].job] \in {"sent", "done"}
    /\ chan[workers[h].job] = <<>>

\* C15 as stated: after a debug_info has taken the message of a registered
\* token, every get of the token returns Pending.
C15_Original ==
    [][Ran("get") =>
          LET h == last'.token IN
          (h \in DOMAIN workers /\ Consumed(h)) => last'.state = Pending]_vars

\* C15 amended: debug_info leaves the channel of every registered job empty,
\* taking a message that was waiting; the message does not come back, so no
\* get of the token returns Done; get returns Pending as long as the job's
\* thread is alive and Disconnected once it has ended, and the record stays.
C15_SnapshotConsumes ==
    [][/\ Ran("debug_info") =>
            \A h \in DOMAIN workers :
                /\ chan'[workers[h].job] = <<>>
                /\ thread[workers[h].job] \in {"sent", "done"} => Consumed(h)'
       /\ \A h \in DOMAIN workers :
            (Consumed(h) /\ h \in DOMAIN workers') => Consumed(h)'
       /\ Ran("get") =>
            LET h == last'.token IN
            (h \in DOMAIN workers /\ Consumed(h)) =>
               /\ last'.state.tag /= "Done"
               /\ last'.state = IF thread[workers[h].job] = "sent"
                                 THEN Pending ELSE ErrDisconnected
               /\ h \in DOMAIN workers']_vars

\* the message was taken by a debug_info, the thread has ended, and get has
\* answered Disconnected
C15_Witness ==
    /\ last.op = "get" /\ last.state = ErrDisconnected
    /\ last.token \in DOMAIN workers
    /\ thread[workers[last.token].job] = "done"
    /\ Consumed(last.token)

\* the registry operations the handlers call
Operations == {"enqueue", "get", "remove", "debug_info"}

\* C16: at most one handler holds the guard of the Mutex<ServState> at a
\* time; each of enqueue, get, remove and debug_info runs from start to end
\* in the step of the one handler that holds it, which drops it on return;
\* the map, the counter and the contents of a registered job's channel are
\* not changed or read away by any step but such a one, so that no operation
\* sees the lookup, channel check or erase of another half done.
C16_OneOperationAtATime ==
    /\ [](guards \in {0, 1})
    /\ [][/\ last'.op \in Operations => (guards = 1 /\ guards' = 0)
          /\ guards' > guards => (guards = 0 /\ last'.op = "none")
          /\ (workers' /= workers \/ WORKER_TOKEN' /= WORKER_TOKEN
                \/ \E j \in Jobs : Len(chan'[j]) < Len(chan[j]))
               => (guards = 1 /\ guards' = 0 /\ last'.op \in Operations)]_vars

\* a handler is inside its critical section with jobs registered, and no
\* other handler can take the lock
C16_Witness ==
    /\ guards = 1
    /\ ~ENABLED Lock
    /\ Cardinality(DOMAIN workers) >= 2

\* C17: the handler that holds the lock can complete a get or a remove of
\* any token in the state it finds, whatever the jobs are doing; remove of a
\* registered token cancels its thread, erases the record and returns
\* Removed; get decides on what the channel holds at that instant; neither
\* moves a job's thread on; and with no job ever taking a step the lock is
\* still released, so the next operation runs.
C17_NeverWaitsForAJob ==
    /\ [](guards > 0 => \A token \in Tokens :
                           ENABLED DoRemove(token) /\ ENABLED DoGet(token, now))
    /\ [][/\ Ran("remove") =>
                LET h == last'.token IN
                h \in DOMAIN workers =>
                   /\ last'.state = Removed
                   /\ workers[h].job \in cancelled'
                   /\ h \notin DOMAIN workers'
          /\ Ran("get") =>
                LET h == last'.token IN
                h \in DOMAIN workers =>
                   last'.state = (LET j == workers[h].job IN
                                  IF chan[j] /= <<>> THEN Done(Head(chan[j]))
                                  ELSE IF SenderAlive(thread[j]) THEN Pending
                                  ELSE ErrDisconnected)
          /\ (Ran("get") \/ Ran("remove")) =>
                \A j \in Jobs : thread'[j] \in {thread[j], "detached"}]_vars
    /\ (guards > 0 ~> guards = 0)

\* a job has been removed and the lock released while another job runs on
C17_Witness ==
    /\ last.op = "remove" /\ last.state = Removed
    /\ guards = 0
    /\ cancelled /= {}
    /\ \E h \in DOMAIN workers : thread[workers[h].job] = "running"

\* C18: a get that returns Pending changes the last_query of its token to
\* the time it read and nothing else: the token stays in the map with its
\* name, job and create_time, every other record is as it was, and the
\* counter, the channels and the threads are unchanged. Every get of a
\* registered token that leaves the record in the map leaves it with
\* last_query at the time read.
C18_PendingTouchesLastQuery ==
    [][Ran("get") =>
          LET h == last'.token IN
          /\ last'.state = Pending =>
                /\ h \in DOMAIN workers
                /\ workers' = [workers EXCEPT ![h].last_query = now']
                /\ workers'[h].name = workers[h].name
                /\ workers'[h].job = workers[h].job
                /\ workers'[h].create_time = workers[h].create_time
                /\ \A x \in DOMAIN workers \ {h} : workers'[x] = workers[x]
                /\ UNCHANGED <<WORKER_TOKEN, chan, thread, cancelled>>
          /\ (h \in DOMAIN workers /\ h \in DOMAIN workers') =>
                workers'[h].last_query = now']_vars

\* Pending for a token whose last_query moved on from its create_time, next to
\* a record last queried before
C18_Witness ==
    /\ last.op = "get" /\ last.state = Pending
    /\ last.token \in DOMAIN workers
    /\ workers[last.token].last_query > workers[last.token].create_time
    /\ \E x \in DOMAIN workers : workers[x].last_query < now

\* C19: a token for which get has returned Disconnected stays in the map
\* until it is removed: the remove of it returns Removed and erases the
\* record, no other step takes it out of the map, and after the remove get
\* and remove of it return NotExist.
C19_DisconnectedCanBeRemoved ==
    [][/\ \A h \in Tokens :
            ("Disconnected" \in seen[h] /\ "Removed" \notin seen[h]) =>
               /\ h \in DOMAIN workers
               /\ h \notin DOMAIN workers' =>
                     RanOn("remove", h) /\ last'.state = Removed
               /\ RanOn("remove", h) =>
                     last'.state = Removed /\ h \notin DOMAIN workers'
       /\ (Ran("get") \/ Ran("remove")) =>
            ({"Disconnected", "Removed"} \subseteq seen[last'.token]
                => last'.state = ErrNotExist /\ workers' = workers)]_vars

\* get of a token that answered Disconnected and was then removed
C19_Witness ==
    /\ last.op = "get" /\ last.state = ErrNotExist
    /\ seen[last.token] = {"Started", "Disconnected", "Removed"}

\* C20: debug_info leaves the map as it is, with every record's name, job,
\* create_time and last_query, and with it job_num and job_available of
\* every kind; the counter, the threads and the clock are not touched. Of the
\* channels only those of registered jobs change, and only by losing the
\* message at their head.
C20_SnapshotKeepsBookkeeping ==
    [][Ran("debug_info") =>
          /\ workers' = workers
          /\ \A k \in Kinds :
                /\ job_num(workers', k) = job_num(workers, k)
                /\ job_available(workers', job_limits', k)
                      <=> job_available(workers, job_limits, k)
          /\ UNCHANGED <<WORKER_TOKEN, thread, cancelled, now, job_limits,
                         seen, issued>>
          /\ \A j \in Jobs :
                \/ chan'[j] = chan[j]
                \/ /\ chan[j] /= <<>> /\ chan'[j] = Tail(chan[j])
                   /\ \E h \in DOMAIN workers : workers[h].job = j]_vars

\* a debug_info has taken a message, and the records, one of them queried
\* after its creation, are all still there
C20_Witness ==
    /\ last.op = "debug_info"
    /\ Cardinality(DOMAIN workers) >= 2
    /\ \E h \in DOMAIN workers : Consumed(h)
    /\ \E h \in DOMAIN workers : workers[h].last_query > workers[h].create_time

====
